---- MODULE Spec2Model ----
(***************************************************************************)
(* Event booking backend: the bookings, users and waitlist routers acting   *)
(* on the events, bookings and waitlists tables.                            *)
(*                                                                          *)
(* Spec           the request handlers executed one at a time               *)
(* SpecBookRace   concurrent bookings.book_event requests (no row lock)     *)
(* SpecTicketRace concurrent users.book_ticket requests (event row locked)  *)
(***************************************************************************)
EXTENDS Integers, Sequences, FiniteSets, TLC

\* ---------------------------------------------------------------- bounds
MaxCap == 2
MaxBookings == 3
NumProcs == 2
MaxTime == 3

\* rows of the users table
Users == {1, 2, 3}
\* ids a request can carry: user 0 and the events never created match no row
UserIds == Users \cup {0}
EventIds == {1, 2}
BookingIds == 1..(MaxBookings + 1)
Procs == 1..NumProcs

\* ---------------------------------------------------------------- state
VARIABLES
    events,     \* events table: event id -> [capacity, booked_count]
    bookings,   \* bookings table in id order: row i has id i
    waitlists,  \* waitlists table in id order
    last,       \* the last completed request and its response
    pc,         \* concurrent requests: position of each in its handler
    req,        \* concurrent requests: [event_id, user_id]
    loc,        \* concurrent requests: values read so far
    lock,       \* events row lock: event id -> holder (0: free)
    users,      \* users table: the ids of its rows
    cache,      \* the cache store: key -> [value, expiry], for the keys present
    now,        \* time.time(), in seconds since the start
    redis       \* redis_client: whether one was connected at import (client), whether
                \* the server answers now (up), and the server's keys (data)

vars == <<events, bookings, waitlists, last, pc, req, loc, lock, users, cache, now, redis>>

\* ---------------------------------------------------------------- helpers
RemoveAt(s, i) == [j \in 1..(Len(s) - 1) |-> IF j < i THEN s[j] ELSE s[j + 1]]

\* sequences of distinct elements of S
Distinct(S) ==
    {f \in UNION {[1..k -> S] : k \in 0..Cardinality(S)} :
        \A i, j \in DOMAIN f : i # j => f[i] # f[j]}

Max(a, b) == IF a >= b THEN a ELSE b

Min(a, b) == IF a <= b THEN a ELSE b

\* Booking(user_id, event_id, status=BOOKED)
Booking(u, e) == [user_id |-> u, event_id |-> e, status |-> "BOOKED"]

\* Waitlist(user_id, event_id, position)
Waitlist(u, e, p) == [user_id |-> u, event_id |-> e, position |-> p]

db_add_reuses_cancelled_row(bk, row) ==
    LET old == {i \in DOMAIN bk : bk[i].user_id = row.user_id /\ bk[i].event_id = row.event_id
                                  /\ bk[i].status = "CANCELLED"}
    IN  IF old = {} THEN Append(bk, row)
        ELSE [bk EXCEPT ![CHOOSE i \in old : TRUE] = row]

\* db.add(booking) and the INSERT at commit: a new row with the next id
db_add(bk, row) == Append(bk, row)

\* db.query(Booking).filter(event_id, status == BOOKED).count()
active_bookings(bk, e) ==
    Cardinality({i \in DOMAIN bk : bk[i].event_id = e /\ bk[i].status = "BOOKED"})

existing_booking_unchecked(bk, u, e) == FALSE

\* db.query(Booking).filter(user_id, event_id, status == BOOKED).first()
existing_booking(bk, u, e) ==
    \E i \in DOMAIN bk :
        bk[i].user_id = u /\ bk[i].event_id = e /\ bk[i].status = "BOOKED"

\* rows of db.query(Waitlist).filter(user_id, event_id)
waitlist_rows(wl, u, e) ==
    {i \in DOMAIN wl : wl[i].user_id = u /\ wl[i].event_id = e}

existing_waitlist_unchecked(wl, u, e) == FALSE

\* db.query(Waitlist).filter(user_id, event_id).first()
existing_waitlist(wl, u, e) == waitlist_rows(wl, u, e) # {}

\* rows of an event's waitlist
event_rows(wl, e) == {i \in DOMAIN wl : wl[i].event_id = e}

get_next_waitlist_position_of_all(wl, e) ==
    LET ps == {wl[i].position : i \in DOMAIN wl}
    IN  IF ps = {} THEN 1 ELSE (CHOOSE m \in ps : \A p \in ps : p <= m) + 1

\* (max_position or 0) + 1
get_next_waitlist_position(wl, e) ==
    LET ps == {wl[i].position : i \in event_rows(wl, e)}
    IN  IF ps = {} THEN 1 ELSE (CHOOSE m \in ps : \A p \in ps : p <= m) + 1

first_waitlist_descending(wl, e) ==
    {i \in event_rows(wl, e) :
        \A j \in event_rows(wl, e) : wl[i].position >= wl[j].position}

\* rows db.query(Waitlist).filter(event_id).order_by(position).first() can return
first_waitlist(wl, e) ==
    {i \in event_rows(wl, e) :
        \A j \in event_rows(wl, e) : wl[i].position <= wl[j].position}

shift_after_moves_back(wl, e, p) ==
    [j \in DOMAIN wl |->
        IF wl[j].event_id = e /\ wl[j].position > p
        THEN [wl[j] EXCEPT !.position = @ + 1]
        ELSE wl[j]]

shift_after_skipped(wl, e, p) == wl

shift_after_all_positions(wl, e, p) ==
    [j \in DOMAIN wl |->
        IF wl[j].event_id = e
        THEN [wl[j] EXCEPT !.position = @ - 1]
        ELSE wl[j]]

\* entries of event e behind position p move up by one
shift_after(wl, e, p) ==
    [j \in DOMAIN wl |->
        IF wl[j].event_id = e /\ wl[j].position > p
        THEN [wl[j] EXCEPT !.position = @ - 1]
        ELSE wl[j]]

DB == [events |-> events, bookings |-> bookings, waitlists |-> waitlists]

Commit(d) ==
    /\ events' = d.events
    /\ bookings' = d.bookings
    /\ waitlists' = d.waitlists

Rollback == UNCHANGED <<events, bookings, waitlists>>

Idle == UNCHANGED <<pc, req, loc, lock, users, now, redis>>

\* a completed request and its response: booking_id the booking created or
\* cancelled, moved whether a promotion happened, attempts the calls made to
\* move_from_waitlist_to_booking, position the waitlist position assigned or freed
Resp(op, e, u, b, result, moved, attempts) ==
    [op |-> op, event_id |-> e, user_id |-> u, booking_id |-> b,
     result |-> result, moved |-> moved, attempts |-> attempts, position |-> 0]

RespAt(op, e, u, position) ==
    [Resp(op, e, u, 0, "ok", FALSE, 0) EXCEPT !.position = position]

\* what a concurrent request has read (n) and its response (result)
Local(n, result) == [n |-> n, result |-> result]

\* ---------------------------------------------------------------- cache
\* "events:all"
make_events_cache_key == <<"events:all", 0>>

\* f"event:{event_id}"
make_event_cache_key(e) == <<"event:", e>>

\* f"user:{user_id}:bookings"
make_user_bookings_cache_key(u) == <<"user:bookings", u>>

\* "analytics:data"
make_analytics_cache_key == <<"analytics:data", 0>>

\* redis_client = None: no Redis server was reachable when the process started
no_redis == [client |-> FALSE, up |-> FALSE, data |-> [x \in {} |-> 0]]

\* _memory_cache = {}
_memory_cache == [x \in {} |-> 0]

\* _memory_cache[key] = {"value": value, "expiry": time.time() + ttl}
set_cache(c, k, v, ttl, t) ==
    [x \in DOMAIN c \cup {k} |-> IF x = k THEN [value |-> v, expiry |-> t + ttl] ELSE c[x]]

get_cache_always_misses(c, k, t) ==
    [hit |-> FALSE, value |-> <<>>, store |-> [x \in DOMAIN c \ {k} |-> c[x]]]

get_cache_expiry_inclusive(c, k, t) ==
    IF k \in DOMAIN c /\ c[k].expiry >= t
    THEN [hit |-> TRUE, value |-> c[k].value, store |-> c]
    ELSE [hit |-> FALSE, value |-> <<>>, store |-> [x \in DOMAIN c \ {k} |-> c[x]]]

\* get_cache(key) at time t: hit and value are what the caller gets (a miss is
\* None), store is the cache afterwards, an expired entry being deleted
get_cache(c, k, t) ==
    IF k \in DOMAIN c /\ c[k].expiry > t
    THEN [hit |-> TRUE, value |-> c[k].value, store |-> c]
    ELSE [hit |-> FALSE, value |-> <<>>, store |-> [x \in DOMAIN c \ {k} |-> c[x]]]

\* _memory_cache.pop(key, None)
delete_cache(c, k) == [x \in DOMAIN c \ {k} |-> c[x]]

invalidate_event_caches_clears_all(c, e) == _memory_cache

\* invalidate_event_caches(event_id): event_id 0 is falsy, no event key is deleted
invalidate_event_caches(c, e) ==
    LET c1 == delete_cache(delete_cache(c, make_events_cache_key), make_analytics_cache_key)
    IN  IF e # 0 THEN delete_cache(c1, make_event_cache_key(e)) ELSE c1

\* invalidate_user_booking_cache(user_id)
invalidate_user_booking_cache(c, u) == delete_cache(c, make_user_bookings_cache_key(u))

\* ---------------------------------------------------------------- promotion
promote_row_keeps_entry(d, e, i) ==
    [events |-> [d.events EXCEPT ![e].booked_count = active_bookings(d.bookings, e) + 1],
     bookings |-> db_add(d.bookings, Booking(d.waitlists[i].user_id, e)),
     waitlists |-> d.waitlists]

promote_row_without_shift(d, e, i) ==
    [events |-> [d.events EXCEPT ![e].booked_count = active_bookings(d.bookings, e) + 1],
     bookings |-> db_add(d.bookings, Booking(d.waitlists[i].user_id, e)),
     waitlists |-> RemoveAt(d.waitlists, i)]

\* one promotion of row i, the front of event e's waitlist
promote_row(d, e, i) ==
    [events |-> [d.events EXCEPT ![e].booked_count = active_bookings(d.bookings, e) + 1],
     bookings |-> db_add(d.bookings, Booking(d.waitlists[i].user_id, e)),
     waitlists |-> RemoveAt(shift_after(d.waitlists, e, d.waitlists[i].position), i)]

move_from_waitlist_to_booking_noop(d, e) == {[db |-> d, moved |-> FALSE]}

\* the outcomes of move_from_waitlist_to_booking(db, event_id): [db, moved]
move_from_waitlist_to_booking(d, e) ==
    IF e \notin DOMAIN d.events
    THEN {[db |-> d, moved |-> FALSE]}
    ELSE IF active_bookings(d.bookings, e) >= d.events[e].capacity
    THEN {[db |-> d, moved |-> FALSE]}
    ELSE IF first_waitlist(d.waitlists, e) = {}
    THEN {[db |-> d, moved |-> FALSE]}
    ELSE {[db |-> promote_row(d, e, i), moved |-> TRUE] : i \in first_waitlist(d.waitlists, e)}

process_loop_once(d, e, n) ==
    {[db |-> r.db, moved_count |-> IF r.moved THEN n + 1 ELSE n, attempts |-> n + 1]
        : r \in move_from_waitlist_to_booking(d, e)}

\* while move_from_waitlist_to_booking(db, event_id): moved_count += 1
\* the outcomes: [db, moved_count, attempts]
RECURSIVE process_loop(_, _, _)
process_loop(d, e, n) ==
    UNION {IF r.moved
           THEN process_loop(r.db, e, n + 1)
           ELSE {[db |-> r.db, moved_count |-> n, attempts |-> n + 1]}
           : r \in move_from_waitlist_to_booking(d, e)}

\* ---------------------------------------------------------------- handlers
book_event_auto_enqueue(e, u) ==
    /\ Idle
    /\ UNCHANGED cache
    /\ IF e \notin DOMAIN events
       THEN Rollback /\ last' = Resp("book_event", e, u, 0, "Event not found", FALSE, 0)
       ELSE IF u \notin users
       THEN Rollback /\ last' = Resp("book_event", e, u, 0, "User not found", FALSE, 0)
       ELSE IF existing_booking(bookings, u, e)
       THEN Rollback /\ last' = Resp("book_event", e, u, 0, "already booked", FALSE, 0)
       ELSE IF existing_waitlist(waitlists, u, e)
       THEN Rollback /\ last' = Resp("book_event", e, u, 0, "already on waitlist", FALSE, 0)
       ELSE IF active_bookings(bookings, e) >= events[e].capacity
       THEN /\ waitlists' = Append(waitlists,
                                   Waitlist(u, e, get_next_waitlist_position(waitlists, e)))
            /\ UNCHANGED <<events, bookings>>
            /\ last' = Resp("book_event", e, u, 0, "Event is full", FALSE, 0)
       ELSE /\ bookings' = db_add(bookings, Booking(u, e))
            /\ events' = [events EXCEPT ![e].booked_count = active_bookings(bookings, e) + 1]
            /\ UNCHANGED waitlists
            /\ last' = Resp("book_event", e, u, Len(bookings) + 1, "ok", FALSE, 0)
    /\ Len(bookings') <= MaxBookings

book_event_capacity_first(e, u) ==
    /\ Idle
    /\ UNCHANGED cache
    /\ IF e \notin DOMAIN events
       THEN Rollback /\ last' = Resp("book_event", e, u, 0, "Event not found", FALSE, 0)
       ELSE IF u \notin users
       THEN Rollback /\ last' = Resp("book_event", e, u, 0, "User not found", FALSE, 0)
       ELSE IF active_bookings(bookings, e) >= events[e].capacity
       THEN Rollback /\ last' = Resp("book_event", e, u, 0, "Event is full", FALSE, 0)
       ELSE IF existing_booking(bookings, u, e)
       THEN Rollback /\ last' = Resp("book_event", e, u, 0, "already booked", FALSE, 0)
       ELSE IF existing_waitlist(waitlists, u, e)
       THEN Rollback /\ last' = Resp("book_event", e, u, 0, "already on waitlist", FALSE, 0)
       ELSE /\ bookings' = db_add(bookings, Booking(u, e))
            /\ events' = [events EXCEPT ![e].booked_count = active_bookings(bookings, e) + 1]
            /\ UNCHANGED waitlists
            /\ last' = Resp("book_event", e, u, Len(bookings) + 1, "ok", FALSE, 0)
    /\ Len(bookings') <= MaxBookings

\* POST /bookings/book/{event_id}
book_event(e, u) ==
    /\ Idle
    /\ UNCHANGED cache
    /\ IF e \notin DOMAIN events
       THEN Rollback /\ last' = Resp("book_event", e, u, 0, "Event not found", FALSE, 0)
       ELSE IF u \notin users
       THEN Rollback /\ last' = Resp("book_event", e, u, 0, "User not found", FALSE, 0)
       ELSE IF existing_booking(bookings, u, e)
       THEN Rollback /\ last' = Resp("book_event", e, u, 0, "already booked", FALSE, 0)
       ELSE IF existing_waitlist(waitlists, u, e)
       THEN Rollback /\ last' = Resp("book_event", e, u, 0, "already on waitlist", FALSE, 0)
       ELSE IF active_bookings(bookings, e) >= events[e].capacity
       THEN Rollback /\ last' = Resp("book_event", e, u, 0, "Event is full", FALSE, 0)
       ELSE /\ bookings' = db_add(bookings, Booking(u, e))
            /\ events' = [events EXCEPT ![e].booked_count = active_bookings(bookings, e) + 1]
            /\ UNCHANGED waitlists
            /\ last' = Resp("book_event", e, u, Len(bookings) + 1, "ok", FALSE, 0)
    /\ Len(bookings') <= MaxBookings

ticket_full_off_by_one(n, capacity) == n > capacity

\* if event.booked_count >= event.capacity
ticket_full(n, capacity) == n >= capacity

\* POST /users/events/{event_id}/book
book_ticket(e, u) ==
    /\ Idle
    /\ IF e \notin DOMAIN events
       THEN Rollback /\ last' = Resp("book_ticket", e, u, 0, "Event not found", FALSE, 0)
       ELSE IF ticket_full(events[e].booked_count, events[e].capacity)
       THEN Rollback /\ last' = Resp("book_ticket", e, u, 0, "Event fully booked", FALSE, 0)
       ELSE IF u \notin users
       \* bookings.user_id is a foreign key to users.id: the INSERT fails
       THEN Rollback /\ last' = Resp("book_ticket", e, u, 0, "IntegrityError", FALSE, 0)
       ELSE /\ bookings' = db_add(bookings, Booking(u, e))
            /\ events' = [events EXCEPT ![e].booked_count = @ + 1]
            /\ UNCHANGED waitlists
            /\ last' = Resp("book_ticket", e, u, Len(bookings) + 1, "ok", FALSE, 0)
    /\ IF last'.result = "ok"
       THEN cache' = invalidate_user_booking_cache(invalidate_event_caches(cache, e), u)
       ELSE UNCHANGED cache
    /\ Len(bookings') <= MaxBookings

active_booking_of_any_status(bk, b) == b \in DOMAIN bk

\* Booking.id == booking_id, Booking.status == BookingStatus.BOOKED
active_booking(bk, b) == b \in DOMAIN bk /\ bk[b].status = "BOOKED"

cancel_booking_without_promotion(b) ==
    /\ Idle
    /\ UNCHANGED cache
    /\ IF ~(b \in DOMAIN bookings /\ bookings[b].status = "BOOKED")
       THEN Rollback /\ last' = Resp("cancel_booking", 0, 0, b, "Active booking not found", FALSE, 0)
       ELSE /\ events' = [events EXCEPT ![bookings[b].event_id].booked_count = Max(0, @ - 1)]
            /\ bookings' = [bookings EXCEPT ![b].status = "CANCELLED"]
            /\ UNCHANGED waitlists
            /\ last' = Resp("cancel_booking", bookings[b].event_id, bookings[b].user_id, b,
                            "ok", FALSE, 0)

cancel_booking_promotes_all(b) ==
    /\ Idle
    /\ UNCHANGED cache
    /\ IF ~active_booking(bookings, b)
       THEN Rollback /\ last' = Resp("cancel_booking", 0, 0, b, "Active booking not found", FALSE, 0)
       ELSE LET e == bookings[b].event_id
                cancelled ==
                    [events |-> [events EXCEPT ![e].booked_count = Max(0, @ - 1)],
                     bookings |-> [bookings EXCEPT ![b].status = "CANCELLED"],
                     waitlists |-> waitlists]
            IN  \E r \in process_loop(cancelled, e, 0) :
                    /\ Commit(r.db)
                    /\ last' = Resp("cancel_booking", e, bookings[b].user_id, b, "ok",
                                    r.moved_count > 0, r.attempts)

\* DELETE /bookings/cancel/{booking_id}
cancel_booking(b) ==
    /\ Idle
    /\ UNCHANGED cache
    /\ IF ~active_booking(bookings, b)
       THEN Rollback /\ last' = Resp("cancel_booking", 0, 0, b, "Active booking not found", FALSE, 0)
       ELSE LET e == bookings[b].event_id
                cancelled ==
                    [events |-> [events EXCEPT ![e].booked_count = Max(0, @ - 1)],
                     bookings |-> [bookings EXCEPT ![b].status = "CANCELLED"],
                     waitlists |-> waitlists]
            IN  \E r \in move_from_waitlist_to_booking(cancelled, e) :
                    /\ Commit(r.db)
                    /\ last' = Resp("cancel_booking", e, bookings[b].user_id, b, "ok", r.moved, 1)
    /\ Len(bookings') <= MaxBookings

\* POST /users/bookings/{booking_id}/cancel
\* BookingStatus has the members BOOKED and CANCELLED: evaluating
\* BookingStatus.cancelled raises AttributeError before anything is written
users_cancel_booking(b) ==
    /\ Idle
    /\ UNCHANGED cache
    /\ Rollback
    /\ IF b \notin DOMAIN bookings
       THEN last' = Resp("users_cancel_booking", 0, 0, b, "Booking not found", FALSE, 0)
       ELSE last' = Resp("users_cancel_booking", 0, 0, b, "AttributeError", FALSE, 0)

event_not_full_below_last_seat(bk, ev, e) == active_bookings(bk, e) < ev[e].capacity - 1

event_not_full_unchecked(bk, ev, e) == FALSE

\* join_waitlist: active_bookings < event.capacity, a live count of BOOKED rows
event_not_full(bk, ev, e) == active_bookings(bk, e) < ev[e].capacity

\* POST /waitlist/join/{event_id}
join_waitlist(e, u) ==
    /\ Idle
    /\ UNCHANGED cache
    /\ IF e \notin DOMAIN events
       THEN Rollback /\ last' = Resp("join_waitlist", e, u, 0, "Event not found", FALSE, 0)
       ELSE IF u \notin users
       THEN Rollback /\ last' = Resp("join_waitlist", e, u, 0, "User not found", FALSE, 0)
       ELSE IF existing_booking(bookings, u, e)
       THEN Rollback /\ last' = Resp("join_waitlist", e, u, 0, "already booked", FALSE, 0)
       ELSE IF existing_waitlist(waitlists, u, e)
       THEN Rollback /\ last' = Resp("join_waitlist", e, u, 0, "already on waitlist", FALSE, 0)
       ELSE IF event_not_full(bookings, events, e)
       THEN Rollback /\ last' = Resp("join_waitlist", e, u, 0, "Event is not full", FALSE, 0)
       ELSE /\ waitlists' = Append(waitlists,
                                   Waitlist(u, e, get_next_waitlist_position(waitlists, e)))
            /\ UNCHANGED <<events, bookings>>
            /\ last' = RespAt("join_waitlist", e, u, get_next_waitlist_position(waitlists, e))

leave_waitlist_shifts_on_miss(e, u) ==
    /\ Idle
    /\ UNCHANGED cache
    /\ IF waitlist_rows(waitlists, u, e) = {}
       THEN /\ waitlists' = shift_after(waitlists, e, 0)
            /\ UNCHANGED <<events, bookings>>
            /\ last' = Resp("leave_waitlist", e, u, 0, "not on the waitlist", FALSE, 0)
       ELSE \E i \in waitlist_rows(waitlists, u, e) :
            /\ waitlists' = RemoveAt(shift_after(waitlists, e, waitlists[i].position), i)
            /\ UNCHANGED <<events, bookings>>
            /\ last' = RespAt("leave_waitlist", e, u, waitlists[i].position)

\* DELETE /waitlist/leave/{event_id}?user_id=
leave_waitlist(e, u) ==
    /\ Idle
    /\ UNCHANGED cache
    /\ IF waitlist_rows(waitlists, u, e) = {}
       THEN Rollback /\ last' = Resp("leave_waitlist", e, u, 0, "not on the waitlist", FALSE, 0)
       ELSE \E i \in waitlist_rows(waitlists, u, e) :
            /\ waitlists' = RemoveAt(shift_after(waitlists, e, waitlists[i].position), i)
            /\ UNCHANGED <<events, bookings>>
            /\ last' = RespAt("leave_waitlist", e, u, waitlists[i].position)

\* POST /waitlist/process/{event_id}
process_waitlist(e) ==
    /\ Idle
    /\ UNCHANGED cache
    /\ IF e \notin DOMAIN events
       THEN Rollback /\ last' = Resp("process_waitlist", e, 0, 0, "Event not found", FALSE, 0)
       ELSE \E r \in process_loop(DB, e, 0) :
            /\ Commit(r.db)
            /\ last' = Resp("process_waitlist", e, 0, 0, "ok", r.moved_count > 0, r.attempts)
    /\ Len(bookings') <= MaxBookings

\* ---------------------------------------------------------------- Spec
\* events created by create_event: booked_count=0, no bookings, no waitlist
Init ==
    /\ events \in [{1} -> [capacity : 1..MaxCap, booked_count : {0}]]
    /\ bookings = <<>>
    /\ waitlists = <<>>
    /\ last = Resp("none", 0, 0, 0, "none", FALSE, 0)
    /\ pc = [p \in Procs |-> "idle"]
    /\ req = [p \in Procs |-> [event_id |-> 0, user_id |-> 0]]
    /\ loc = [p \in Procs |-> Local(0, "none")]
    /\ lock = [e \in EventIds |-> 0]
    /\ users = Users
    /\ cache = _memory_cache
    /\ now = 0
    /\ redis = no_redis

Next ==
    \/ \E e \in EventIds, u \in UserIds : book_event(e, u)
    \/ \E e \in EventIds, u \in UserIds : book_ticket(e, u)
    \/ \E b \in BookingIds : cancel_booking(b)
    \/ \E b \in BookingIds : users_cancel_booking(b)
    \/ \E e \in EventIds, u \in UserIds : join_waitlist(e, u)
    \/ \E e \in EventIds, u \in UserIds : leave_waitlist(e, u)
    \/ \E e \in EventIds : process_waitlist(e)

Spec == Init /\ [][Next]_vars

\* ---------------------------------------------------------------- event administration
\* EventUpdate bodies: capacity is Optional[int], <<>> for None, with no validator
EventUpdates == {[capacity |-> <<>>]} \cup {[capacity |-> <<c>>] : c \in 0..MaxCap}

\* PUT /admin/events/{event_id}
update_event(e, event_data) ==
    /\ Idle
    /\ IF e \notin DOMAIN events
       THEN /\ Rollback
            /\ UNCHANGED cache
            /\ last' = Resp("update_event", e, 0, 0, "Event not found", FALSE, 0)
       ELSE /\ events' = IF event_data.capacity # <<>>
                         THEN [events EXCEPT ![e].capacity = event_data.capacity[1]]
                         ELSE events
            /\ UNCHANGED <<bookings, waitlists>>
            /\ cache' = invalidate_event_caches(cache, e)
            /\ last' = Resp("update_event", e, 0, 0, "ok", FALSE, 0)

NextAdmin ==
    \/ \E e \in EventIds, u \in UserIds : book_event(e, u)
    \/ \E b \in BookingIds : cancel_booking(b)
    \/ \E e \in EventIds, u \in UserIds : join_waitlist(e, u)
    \/ \E e \in EventIds, d \in EventUpdates : update_event(e, d)

SpecAdmin == Init /\ [][NextAdmin]_vars

\* ---------------------------------------------------------------- cached reads
\* set_cache(cache_key, events_data, ttl=300)
events_ttl == 300

\* set_cache(cache_key, bookings_data, ttl=120)
user_bookings_ttl == 120

\* set_cache(cache_key, analytics_data, ttl=600)
analytics_ttl == 600

\* the listing of get_events, by event id
events_data(ev) ==
    [e \in DOMAIN ev |->
        [id |-> e, capacity |-> ev[e].capacity, booked_count |-> ev[e].booked_count,
         available_spots |-> ev[e].capacity - ev[e].booked_count]]

\* the history of get_user_bookings: the rows of the user, whatever their status
bookings_data(bk, u) ==
    {[id |-> i, user_id |-> u, event_id |-> bk[i].event_id, status |-> bk[i].status] :
        i \in {j \in DOMAIN bk : bk[j].user_id = u}}

\* the figures of analytics; popular_events holds the same rows as utilization
utilization(ev) ==
    [e \in DOMAIN ev |->
        [event_id |-> e, booked_count |-> ev[e].booked_count, capacity |-> ev[e].capacity]]

analytics_data(ev, bk, t) ==
    [total_bookings |-> Len(bk), utilization |-> utilization(ev), generated_at |-> t]

\* the response of a cached read and the data it returned
Read(op, u, data) == Resp(op, 0, u, 0, "ok", FALSE, 0) @@ [data |-> data]

\* GET /users/events
get_events ==
    /\ Idle
    /\ Rollback
    /\ LET cached_events == get_cache(cache, make_events_cache_key, now)
       IN  IF cached_events.hit
           THEN /\ cache' = cached_events.store
                /\ last' = Read("get_events", 0, cached_events.value)
           ELSE /\ cache' = set_cache(cached_events.store, make_events_cache_key,
                                      events_data(events), events_ttl, now)
                /\ last' = Read("get_events", 0, events_data(events))

\* GET /users/{user_id}/bookings
get_user_bookings(u) ==
    /\ Idle
    /\ Rollback
    /\ LET cached_bookings == get_cache(cache, make_user_bookings_cache_key(u), now)
       IN  IF cached_bookings.hit
           THEN /\ cache' = cached_bookings.store
                /\ last' = Read("get_user_bookings", u, cached_bookings.value)
           ELSE /\ cache' = set_cache(cached_bookings.store, make_user_bookings_cache_key(u),
                                      bookings_data(bookings, u), user_bookings_ttl, now)
                /\ last' = Read("get_user_bookings", u, bookings_data(bookings, u))

\* GET /admin/analytics
analytics ==
    /\ Idle
    /\ Rollback
    /\ LET cached_analytics == get_cache(cache, make_analytics_cache_key, now)
       IN  IF cached_analytics.hit
           THEN /\ cache' = cached_analytics.store
                /\ last' = Read("analytics", 0, cached_analytics.value)
           ELSE /\ cache' = set_cache(cached_analytics.store, make_analytics_cache_key,
                                      analytics_data(events, bookings, now), analytics_ttl, now)
                /\ last' = Read("analytics", 0, analytics_data(events, bookings, now))

NextCache ==
    \/ \E e \in DOMAIN events, u \in users : book_event(e, u)
    \/ \E e \in DOMAIN events, u \in users : book_ticket(e, u)
    \/ \E b \in BookingIds : cancel_booking(b)
    \/ \E e \in DOMAIN events, u \in users : join_waitlist(e, u)
    \/ \E e \in DOMAIN events, u \in users : leave_waitlist(e, u)
    \/ get_events
    \/ \E u \in users : get_user_bookings(u)
    \/ analytics

\* two registered users and an event of capacity 1, nothing cached
InitCache ==
    /\ events = [e \in {1} |-> [capacity |-> 1, booked_count |-> 0]]
    /\ bookings = <<>>
    /\ waitlists = <<>>
    /\ last = Resp("none", 0, 0, 0, "none", FALSE, 0)
    /\ pc = [p \in Procs |-> "idle"]
    /\ req = [p \in Procs |-> [event_id |-> 0, user_id |-> 0]]
    /\ loc = [p \in Procs |-> Local(0, "none")]
    /\ lock = [e \in EventIds |-> 0]
    /\ users = {1, 2}
    /\ cache = _memory_cache
    /\ now = 0
    /\ redis = no_redis

SpecCache == InitCache /\ [][NextCache]_vars

\* ---------------------------------------------------------------- cache store
\* Python values as the cache sees them: their type and their content
PyValue(type, text) == [type |-> type, text |-> text]

None == PyValue("NoneType", "")

\* the values the tests and the routers cache, all of JSON's own types
CacheValues ==
    {PyValue("str", "expiring_data"),
     PyValue("list", "event1,event2"),
     PyValue("dict", "test:data,number:123")}

\* json.dumps(value, default=str): a JSON text, its kind and its content
json_dumps(v) ==
    [json |-> CASE v.type = "str" -> "string"
                [] v.type = "list" -> "array"
                [] v.type = "tuple" -> "array"
                [] v.type = "dict" -> "object"
                [] v.type = "NoneType" -> "null"
                [] OTHER -> "string",
     text |-> v.text]

\* json.loads(cached)
json_loads(j) ==
    PyValue(CASE j.json = "string" -> "str"
              [] j.json = "array" -> "list"
              [] j.json = "object" -> "dict"
              [] OTHER -> "NoneType",
            j.text)

\* redis_client.setex(key, ttl, text) on a server that answers
redis_setex(r, k, ttl, text, t) ==
    [r EXCEPT !.data = [x \in DOMAIN r.data \cup {k} |->
                            IF x = k THEN [value |-> text, expiry |-> t + ttl]
                            ELSE r.data[x]]]

\* redis_client.get(key) on a server that answers: the text, or nothing once
\* the key has expired or when it was never set
redis_get(r, k, t) ==
    IF k \in DOMAIN r.data /\ t < r.data[k].expiry
    THEN [found |-> TRUE, text |-> r.data[k].value]
    ELSE [found |-> FALSE, text |-> json_dumps(None)]

\* redis_client.delete(key) on a server that answers
redis_delete(r, k) == [r EXCEPT !.data = [x \in DOMAIN r.data \ {k} |-> r.data[x]]]

\* a Redis client was connected when the process started and its server answers
with_redis == [client |-> TRUE, up |-> TRUE, data |-> [x \in {} |-> 0]]

\* the response of a cache call, and what has been written and not deleted since
\* the start: key -> the value, the time of the set_cache and its ttl
StoreResp(op, k, result, value, written) ==
    Resp(op, 0, 0, 0, result, FALSE, 0) @@ [key |-> k, value |-> value, written |-> written]

Written == IF "written" \in DOMAIN last THEN last.written ELSE [x \in {} |-> 0]

StoreFrame == UNCHANGED <<events, bookings, waitlists, pc, req, loc, lock, users, now>>

\* set_cache(key, value, ttl)
call_set_cache(k, v, ttl) ==
    /\ StoreFrame
    /\ IF redis.client
       THEN IF redis.up
            THEN /\ redis' = redis_setex(redis, k, ttl, json_dumps(v), now)
                 /\ UNCHANGED cache
                 /\ last' = StoreResp("set_cache", k, "ok", None,
                        [x \in DOMAIN Written \cup {k} |->
                            IF x = k THEN [value |-> v, at |-> now, ttl |-> ttl]
                            ELSE Written[x]])
            ELSE /\ UNCHANGED <<cache, redis>>
                 /\ last' = StoreResp("set_cache", k, "ConnectionError", None, Written)
       ELSE /\ cache' = set_cache(cache, k, v, ttl, now)
            /\ UNCHANGED redis
            /\ last' = StoreResp("set_cache", k, "ok", None,
                   [x \in DOMAIN Written \cup {k} |->
                       IF x = k THEN [value |-> v, at |-> now, ttl |-> ttl]
                       ELSE Written[x]])

\* get_cache(key)
call_get_cache(k) ==
    /\ StoreFrame
    /\ IF redis.client
       THEN IF redis.up
            THEN LET cached == redis_get(redis, k, now)
                 IN  /\ UNCHANGED <<cache, redis>>
                     /\ last' = StoreResp("get_cache", k, "ok",
                                          IF cached.found THEN json_loads(cached.text) ELSE None,
                                          Written)
            ELSE /\ UNCHANGED <<cache, redis>>
                 /\ last' = StoreResp("get_cache", k, "ConnectionError", None, Written)
       ELSE LET data == get_cache(cache, k, now)
            IN  /\ cache' = data.store
                /\ UNCHANGED redis
                /\ last' = StoreResp("get_cache", k, "ok",
                                     IF data.hit THEN data.value ELSE None, Written)

\* delete_cache(key)
call_delete_cache(k) ==
    /\ StoreFrame
    /\ IF redis.client
       THEN IF redis.up
            THEN /\ redis' = redis_delete(redis, k)
                 /\ UNCHANGED cache
                 /\ last' = StoreResp("delete_cache", k, "ok", None,
                                      [x \in DOMAIN Written \ {k} |-> Written[x]])
            ELSE /\ UNCHANGED <<cache, redis>>
                 /\ last' = StoreResp("delete_cache", k, "ConnectionError", None, Written)
       ELSE /\ cache' = delete_cache(cache, k)
            /\ UNCHANGED redis
            /\ last' = StoreResp("delete_cache", k, "ok", None,
                                 [x \in DOMAIN Written \ {k} |-> Written[x]])

\* time.sleep(1)
tick ==
    /\ now' = now + 1
    /\ now' <= MaxTime
    /\ UNCHANGED <<events, bookings, waitlists, last, pc, req, loc, lock, users, cache, redis>>

StoreKeys == {make_events_cache_key, make_user_bookings_cache_key(1)}

StoreTtls == {1, 2}

\* no event, an empty cache, with or without a Redis server at the start
InitStore ==
    /\ events = <<>>
    /\ bookings = <<>>
    /\ waitlists = <<>>
    /\ last = Resp("none", 0, 0, 0, "none", FALSE, 0)
    /\ pc = [p \in Procs |-> "idle"]
    /\ req = [p \in Procs |-> [event_id |-> 0, user_id |-> 0]]
    /\ loc = [p \in Procs |-> Local(0, "none")]
    /\ lock = [e \in EventIds |-> 0]
    /\ users = Users
    /\ cache = _memory_cache
    /\ now = 0
    /\ redis \in {no_redis, with_redis}

NextStore ==
    \/ \E k \in StoreKeys, v \in CacheValues, ttl \in StoreTtls : call_set_cache(k, v, ttl)
    \/ \E k \in StoreKeys : call_get_cache(k)
    \/ \E k \in StoreKeys : call_delete_cache(k)
    \/ tick

SpecStore == InitStore /\ [][NextStore]_vars

\* ---------------------------------------------------------------- cache invalidation
\* def set_cache(key, value, ttl: int = 60)
default_ttl == 60

\* invalidate_event_caches(event_id) against the Redis store
redis_invalidate_event_caches(r, e) ==
    LET r1 == redis_delete(redis_delete(r, make_events_cache_key), make_analytics_cache_key)
    IN  IF e # 0 THEN redis_delete(r1, make_event_cache_key(e)) ELSE r1

\* the keys invalidate_event_caches(event_id) deletes; 0 stands for no event id
EventKeys(e) ==
    {make_events_cache_key, make_analytics_cache_key}
        \cup (IF e # 0 THEN {make_event_cache_key(e)} ELSE {})

Unwritten(keys) == [x \in DOMAIN Written \ keys |-> Written[x]]

\* invalidate_event_caches(event_id), invalidate_event_caches() when e = 0
call_invalidate_event_caches(e) ==
    /\ StoreFrame
    /\ IF redis.client
       THEN redis' = redis_invalidate_event_caches(redis, e) /\ UNCHANGED cache
       ELSE cache' = invalidate_event_caches(cache, e) /\ UNCHANGED redis
    /\ last' = [StoreResp("invalidate_event_caches", make_event_cache_key(e), "ok", None,
                          Unwritten(EventKeys(e)))
                   EXCEPT !.event_id = e]

\* invalidate_user_booking_cache(user_id)
call_invalidate_user_booking_cache(u) ==
    /\ StoreFrame
    /\ IF redis.client
       THEN redis' = redis_delete(redis, make_user_bookings_cache_key(u)) /\ UNCHANGED cache
       ELSE cache' = invalidate_user_booking_cache(cache, u) /\ UNCHANGED redis
    /\ last' = [StoreResp("invalidate_user_booking_cache", make_user_bookings_cache_key(u),
                          "ok", None, Unwritten({make_user_bookings_cache_key(u)}))
                   EXCEPT !.user_id = u]

\* the keys of the listing, the analytics, two events and two users
ViewKeys ==
    {make_events_cache_key, make_analytics_cache_key}
        \cup {make_event_cache_key(e) : e \in EventIds}
        \cup {make_user_bookings_cache_key(u) : u \in {1, 2}}

NextInvalidate ==
    \/ \E k \in ViewKeys : call_set_cache(k, PyValue("list", "event1,event2"), default_ttl)
    \/ \E e \in EventIds \cup {0} : call_invalidate_event_caches(e)
    \/ \E u \in {1, 2} : call_invalidate_user_booking_cache(u)

SpecInvalidate == InitStore /\ [][NextInvalidate]_vars

\* the cached reads next to the one writer that invalidates, with time passing
NextReads ==
    \/ \E e \in DOMAIN events, u \in users : book_ticket(e, u)
    \/ get_events
    \/ \E u \in users : get_user_bookings(u)
    \/ analytics
    \/ tick

SpecReads == InitCache /\ [][NextReads]_vars

\* the Redis server stops answering after the client was connected: every call
\* on redis_client raises from then on, and redis_client stays set
redis_outage ==
    /\ redis.client
    /\ redis.up
    /\ redis' = [redis EXCEPT !.up = FALSE]
    /\ UNCHANGED <<events, bookings, waitlists, last, pc, req, loc, lock, users, cache, now>>

NextOutage ==
    \/ \E k \in StoreKeys, v \in CacheValues, ttl \in StoreTtls : call_set_cache(k, v, ttl)
    \/ \E k \in StoreKeys : call_get_cache(k)
    \/ \E k \in StoreKeys : call_delete_cache(k)
    \/ tick
    \/ redis_outage

SpecOutage == InitStore /\ [][NextOutage]_vars

\* ---------------------------------------------------------------- scenario
\* src/improved_waitlist_test.py: an event of capacity 2 and four registered users
InitScenario ==
    /\ events = [e \in {1} |-> [capacity |-> 2, booked_count |-> 0]]
    /\ bookings = <<>>
    /\ waitlists = <<>>
    /\ last = Resp("none", 0, 0, 0, "none", FALSE, 0)
    /\ pc = [p \in Procs |-> "idle"]
    /\ req = [p \in Procs |-> [event_id |-> 0, user_id |-> 0]]
    /\ loc = [p \in Procs |-> Local(0, "none")]
    /\ lock = [e \in EventIds |-> 0]
    /\ users = {1, 2, 3, 4}
    /\ cache = _memory_cache
    /\ now = 0
    /\ redis = no_redis

NextScenario ==
    \/ \E e \in DOMAIN events, u \in users : book_event(e, u)
    \/ \E e \in DOMAIN events, u \in users : join_waitlist(e, u)
    \/ \E b \in BookingIds : cancel_booking(b)

SpecScenario == InitScenario /\ [][NextScenario]_vars

\* ---------------------------------------------------------------- two events
\* two created events of capacity 1, each with its own waitlist
InitTwoEvents ==
    /\ events = [e \in {1, 2} |-> [capacity |-> 1, booked_count |-> 0]]
    /\ bookings = <<>>
    /\ waitlists = <<>>
    /\ last = Resp("none", 0, 0, 0, "none", FALSE, 0)
    /\ pc = [p \in Procs |-> "idle"]
    /\ req = [p \in Procs |-> [event_id |-> 0, user_id |-> 0]]
    /\ loc = [p \in Procs |-> Local(0, "none")]
    /\ lock = [e \in EventIds |-> 0]
    /\ users = Users
    /\ cache = _memory_cache
    /\ now = 0
    /\ redis = no_redis

NextTwoEvents ==
    \/ \E e \in DOMAIN events, u \in users : book_event(e, u)
    \/ \E e \in DOMAIN events, u \in users : join_waitlist(e, u)
    \/ \E e \in DOMAIN events, u \in users : leave_waitlist(e, u)

SpecTwoEvents == InitTwoEvents /\ [][NextTwoEvents]_vars

\* ---------------------------------------------------------------- waitlist order
\* an event of capacity 1 and four registered users: up to three users wait
InitQueue ==
    /\ events = [e \in {1} |-> [capacity |-> 1, booked_count |-> 0]]
    /\ bookings = <<>>
    /\ waitlists = <<>>
    /\ last = Resp("none", 0, 0, 0, "none", FALSE, 0)
    /\ pc = [p \in Procs |-> "idle"]
    /\ req = [p \in Procs |-> [event_id |-> 0, user_id |-> 0]]
    /\ loc = [p \in Procs |-> Local(0, "none")]
    /\ lock = [e \in EventIds |-> 0]
    /\ users = {1, 2, 3, 4}
    /\ cache = _memory_cache
    /\ now = 0
    /\ redis = no_redis

NextQueue ==
    \/ \E e \in DOMAIN events, u \in users : book_event(e, u)
    \/ \E e \in DOMAIN events, u \in users : join_waitlist(e, u)
    \/ \E e \in DOMAIN events, u \in users : leave_waitlist(e, u)
    \/ \E b \in BookingIds : cancel_booking(b)
    \/ \E e \in DOMAIN events : process_waitlist(e)

SpecQueue == InitQueue /\ [][NextQueue]_vars

\* ---------------------------------------------------------------- waitlist processing
\* event 1 with some users booked and others waiting at positions 1..k, seats
\* free or not: free seats next to waiting users are what a capacity raised by
\* update_event or a promotion that failed at commit leaves behind
InitProcess ==
    /\ \E c \in 1..MaxCap, f \in Distinct(Users) :
        \E j \in 0..Len(f) :
            /\ j <= c
            /\ events = [e \in {1} |-> [capacity |-> c, booked_count |-> j]]
            /\ bookings = [i \in 1..j |-> Booking(f[i], 1)]
            /\ waitlists = [i \in 1..(Len(f) - j) |-> Waitlist(f[j + i], 1, i)]
    /\ last = Resp("none", 0, 0, 0, "none", FALSE, 0)
    /\ pc = [p \in Procs |-> "idle"]
    /\ req = [p \in Procs |-> [event_id |-> 0, user_id |-> 0]]
    /\ loc = [p \in Procs |-> Local(0, "none")]
    /\ lock = [e \in EventIds |-> 0]
    /\ users = Users
    /\ cache = _memory_cache
    /\ now = 0
    /\ redis = no_redis

NextProcess ==
    \/ \E e \in EventIds : process_waitlist(e)
    \/ \E e \in DOMAIN events, u \in users : book_event(e, u)
    \/ \E e \in DOMAIN events, u \in users : join_waitlist(e, u)
    \/ \E b \in BookingIds : cancel_booking(b)

SpecProcess == InitProcess /\ [][NextProcess]_vars

\* ---------------------------------------------------------------- storage failure
session_commit_partial(d, pending, ok) ==
    IF ok THEN pending ELSE [d EXCEPT !.waitlists = pending.waitlists]

\* db.commit(): the session's pending writes are one transaction; when the commit
\* raises nothing of it is persisted (get_db closes the session, which rolls back)
session_commit(d, pending, ok) == IF ok THEN pending ELSE d

\* DELETE /bookings/cancel/{booking_id} when the commit of the promotion raises:
\* the cancellation was committed before move_from_waitlist_to_booking was called
cancel_booking_commit_raises(b) ==
    /\ Idle
    /\ UNCHANGED cache
    /\ b \in DOMAIN bookings
    /\ bookings[b].status = "BOOKED"
    /\ LET e == bookings[b].event_id
           cancelled ==
               [events |-> [events EXCEPT ![e].booked_count = Max(0, @ - 1)],
                bookings |-> [bookings EXCEPT ![b].status = "CANCELLED"],
                waitlists |-> waitlists]
       IN  /\ active_bookings(cancelled.bookings, e) < events[e].capacity
           /\ \E i \in first_waitlist(waitlists, e) :
                  Commit(session_commit(cancelled, promote_row(cancelled, e, i), FALSE))
           /\ last' = Resp("cancel_booking", e, bookings[b].user_id, b,
                           "Internal Server Error", FALSE, 1)

NextCommitRaises ==
    \/ \E e \in DOMAIN events, u \in users : book_event(e, u)
    \/ \E e \in DOMAIN events, u \in users : join_waitlist(e, u)
    \/ \E b \in BookingIds : cancel_booking(b)
    \/ \E b \in BookingIds : cancel_booking_commit_raises(b)

SpecCommitRaises == Init /\ [][NextCommitRaises]_vars

\* the same requests on the event of capacity 2 with four registered users
SpecScenarioRaises == InitScenario /\ [][NextCommitRaises]_vars

\* ---------------------------------------------------------------- concurrent requests
\* Each request runs in its own session and transaction (READ COMMITTED): a
\* query sees what is committed when it runs, a commit publishes the writes.
Finish(p, result) ==
    /\ pc' = [pc EXCEPT ![p] = "done"]
    /\ loc' = [loc EXCEPT ![p] = Local(@.n, result)]

Goto(p, label) ==
    /\ pc' = [pc EXCEPT ![p] = label]
    /\ UNCHANGED loc

\* book_event: the event, user and existing_booking queries
be_booking(p) ==
    /\ pc[p] = "be_booking"
    /\ IF req[p].event_id \notin DOMAIN events THEN Finish(p, "Event not found")
       ELSE IF req[p].user_id \notin users THEN Finish(p, "User not found")
       ELSE IF existing_booking(bookings, req[p].user_id, req[p].event_id)
       THEN Finish(p, "already booked")
       ELSE Goto(p, "be_waitlist")
    /\ UNCHANGED <<events, bookings, waitlists, last, req, lock, users, cache, now, redis>>

\* book_event: the existing_waitlist query
be_waitlist(p) ==
    /\ pc[p] = "be_waitlist"
    /\ IF existing_waitlist(waitlists, req[p].user_id, req[p].event_id)
       THEN Finish(p, "already on waitlist")
       ELSE Goto(p, "be_count")
    /\ UNCHANGED <<events, bookings, waitlists, last, req, lock, users, cache, now, redis>>

\* book_event: the active_bookings count and the capacity check
be_count(p) ==
    /\ pc[p] = "be_count"
    /\ LET n == active_bookings(bookings, req[p].event_id)
       IN  IF n >= events[req[p].event_id].capacity
           THEN /\ pc' = [pc EXCEPT ![p] = "done"]
                /\ loc' = [loc EXCEPT ![p] = Local(n, "Event is full")]
           ELSE /\ pc' = [pc EXCEPT ![p] = "be_commit"]
                /\ loc' = [loc EXCEPT ![p] = Local(n, @.result)]
    /\ UNCHANGED <<events, bookings, waitlists, last, req, lock, users, cache, now, redis>>

\* book_event: db.add(booking); event.booked_count = active_bookings + 1; db.commit()
\* (the UPDATE of the events row waits for a holder of the row lock)
be_commit(p) ==
    /\ pc[p] = "be_commit"
    /\ lock[req[p].event_id] = 0
    /\ bookings' = db_add(bookings, Booking(req[p].user_id, req[p].event_id))
    /\ events' = [events EXCEPT ![req[p].event_id].booked_count = loc[p].n + 1]
    /\ Finish(p, "ok")
    /\ UNCHANGED <<waitlists, last, req, lock, users, cache, now, redis>>

row_never_locked(p, e) == TRUE

\* whether SELECT ... FOR UPDATE of the event row can proceed for request p
row_available(p, e) == lock[e] = 0

\* book_ticket: db.query(Event).filter(id).with_for_update().first()
bt_lock(p) ==
    /\ pc[p] = "bt_lock"
    /\ IF req[p].event_id \notin DOMAIN events
       THEN Finish(p, "Event not found") /\ UNCHANGED lock
       ELSE /\ row_available(p, req[p].event_id)
            /\ lock' = [lock EXCEPT ![req[p].event_id] = p]
            /\ pc' = [pc EXCEPT ![p] = "bt_check"]
            /\ loc' = [loc EXCEPT ![p] = Local(events[req[p].event_id].booked_count, @.result)]
    /\ UNCHANGED <<events, bookings, waitlists, last, req, users, cache, now, redis>>

\* the transaction of p ends: a row lock it holds is released
Release(p) == lock' = [e \in DOMAIN lock |-> IF lock[e] = p THEN 0 ELSE lock[e]]

\* book_ticket: if event.booked_count >= event.capacity: raise (session closed, rollback)
bt_check(p) ==
    /\ pc[p] = "bt_check"
    /\ IF ticket_full(loc[p].n, events[req[p].event_id].capacity)
       THEN Finish(p, "Event fully booked") /\ Release(p)
       ELSE Goto(p, "bt_commit") /\ UNCHANGED lock
    /\ UNCHANGED <<events, bookings, waitlists, last, req, users, cache, now, redis>>

\* book_ticket: db.add(booking); event.booked_count += 1; db.commit(), and the
\* cache invalidation that follows the commit
bt_commit(p) ==
    /\ pc[p] = "bt_commit"
    /\ IF req[p].user_id \notin users
       THEN /\ Finish(p, "IntegrityError")
            /\ UNCHANGED <<events, bookings>>
       ELSE /\ bookings' = db_add(bookings, Booking(req[p].user_id, req[p].event_id))
            /\ events' = [events EXCEPT ![req[p].event_id].booked_count = loc[p].n + 1]
            /\ Finish(p, "ok")
    /\ Release(p)
    /\ IF req[p].user_id \in users
       THEN cache' = invalidate_user_booking_cache(
                         invalidate_event_caches(cache, req[p].event_id), req[p].user_id)
       ELSE UNCHANGED cache
    /\ UNCHANGED <<waitlists, last, req, users, now, redis>>

\* the event 1 with j of its seats booked through book_event or book_ticket
InitRace(first_step) ==
    /\ \E c \in 1..MaxCap, j \in 0..MaxCap :
        /\ j <= c
        /\ events = [e \in {1} |-> [capacity |-> c, booked_count |-> j]]
        /\ \E f \in [1..j -> Users] : bookings = [i \in 1..j |-> Booking(f[i], 1)]
    /\ waitlists = <<>>
    /\ last = Resp("none", 0, 0, 0, "none", FALSE, 0)
    /\ pc = [p \in Procs |-> first_step]
    /\ req \in [Procs -> [event_id : {1}, user_id : UserIds]]
    /\ loc = [p \in Procs |-> Local(0, "none")]
    /\ lock = [e \in EventIds |-> 0]
    /\ users = Users
    /\ cache = _memory_cache
    /\ now = 0
    /\ redis = no_redis

InitBookRace == InitRace("be_booking")

NextBookRace ==
    \/ \E p \in Procs : be_booking(p)
    \/ \E p \in Procs : be_waitlist(p)
    \/ \E p \in Procs : be_count(p)
    \/ \E p \in Procs : be_commit(p)

SpecBookRace == InitBookRace /\ [][NextBookRace]_vars

InitTicketRace == InitRace("bt_lock")

NextTicketRace ==
    \/ \E p \in Procs : bt_lock(p)
    \/ \E p \in Procs : bt_check(p)
    \/ \E p \in Procs : bt_commit(p)

SpecTicketRace == InitTicketRace /\ [][NextTicketRace]_vars

\* ---------------------------------------------------------------- concurrent joins
\* join_waitlist: the event, user, existing_booking, existing_waitlist and
\* active_bookings queries
jw_check(p) ==
    /\ pc[p] = "jw_check"
    /\ IF req[p].event_id \notin DOMAIN events THEN Finish(p, "Event not found")
       ELSE IF req[p].user_id \notin users THEN Finish(p, "User not found")
       ELSE IF existing_booking(bookings, req[p].user_id, req[p].event_id)
       THEN Finish(p, "already booked")
       ELSE IF existing_waitlist(waitlists, req[p].user_id, req[p].event_id)
       THEN Finish(p, "already on waitlist")
       ELSE IF event_not_full(bookings, events, req[p].event_id)
       THEN Finish(p, "Event is not full")
       ELSE Goto(p, "jw_position")
    /\ UNCHANGED <<events, bookings, waitlists, last, req, lock, users, cache, now, redis>>

\* join_waitlist: position = get_next_waitlist_position(db, event_id)
jw_position(p) ==
    /\ pc[p] = "jw_position"
    /\ pc' = [pc EXCEPT ![p] = "jw_commit"]
    /\ loc' = [loc EXCEPT ![p] = Local(get_next_waitlist_position(waitlists, req[p].event_id),
                                       @.result)]
    /\ UNCHANGED <<events, bookings, waitlists, last, req, lock, users, cache, now, redis>>

\* join_waitlist: db.add(waitlist_entry); db.commit()
jw_commit(p) ==
    /\ pc[p] = "jw_commit"
    /\ waitlists' = Append(waitlists, Waitlist(req[p].user_id, req[p].event_id, loc[p].n))
    /\ Finish(p, "ok")
    /\ UNCHANGED <<events, bookings, last, req, lock, users, cache, now, redis>>

\* the full event 1 with an empty waitlist, and a join request of each of
\* NumProcs distinct users
InitJoinRace ==
    /\ \E c \in 1..MaxCap :
        /\ events = [e \in {1} |-> [capacity |-> c, booked_count |-> c]]
        /\ \E f \in Distinct(Users) :
            /\ Len(f) = c
            /\ bookings = [i \in 1..c |-> Booking(f[i], 1)]
    /\ waitlists = <<>>
    /\ last = Resp("none", 0, 0, 0, "none", FALSE, 0)
    /\ pc = [p \in Procs |-> "jw_check"]
    /\ \E f \in Distinct(Users) :
        /\ Len(f) = NumProcs
        /\ req = [p \in Procs |-> [event_id |-> 1, user_id |-> f[p]]]
    /\ loc = [p \in Procs |-> Local(0, "none")]
    /\ lock = [e \in EventIds |-> 0]
    /\ users = Users
    /\ cache = _memory_cache
    /\ now = 0
    /\ redis = no_redis

NextJoinRace ==
    \/ \E p \in Procs : jw_check(p)
    \/ \E p \in Procs : jw_position(p)
    \/ \E p \in Procs : jw_commit(p)

SpecJoinRace == InitJoinRace /\ [][NextJoinRace]_vars

\* ---------------------------------------------------------------- concurrent promotions
\* what move_from_waitlist_to_booking holds between its queries and its commit:
\* the active_bookings count, the first_waitlist row and the remaining_waitlist rows
Promotion(n, first, remaining) ==
    [n |-> n, result |-> "none", first |-> first, remaining |-> remaining]

\* cancel_booking up to its db.commit(): the booking is cancelled, the counter lowered
cp_cancel(p) ==
    /\ pc[p] = "cp_cancel"
    /\ IF ~active_booking(bookings, req[p].booking_id)
       THEN /\ Finish(p, "Active booking not found")
            /\ UNCHANGED <<events, bookings>>
       ELSE /\ bookings' = [bookings EXCEPT ![req[p].booking_id].status = "CANCELLED"]
            /\ events' = [events EXCEPT
                    ![bookings[req[p].booking_id].event_id].booked_count = Max(0, @ - 1)]
            /\ Goto(p, "cp_read")
    /\ UNCHANGED <<waitlists, last, req, lock, users, cache, now, redis>>

\* move_from_waitlist_to_booking: the event, active_bookings, first_waitlist and
\* remaining_waitlist queries
cp_read(p) ==
    /\ pc[p] = "cp_read"
    /\ LET e == bookings[req[p].booking_id].event_id
       IN  IF active_bookings(bookings, e) >= events[e].capacity
           THEN Finish(p, "ok")
           ELSE IF first_waitlist(waitlists, e) = {}
           THEN Finish(p, "ok")
           ELSE \E i \in first_waitlist(waitlists, e) :
                    /\ pc' = [pc EXCEPT ![p] = "cp_commit"]
                    /\ loc' = [loc EXCEPT ![p] =
                            Promotion(active_bookings(bookings, e), waitlists[i],
                                {waitlists[j] : j \in {k \in event_rows(waitlists, e) :
                                    waitlists[k].position > waitlists[i].position}})]
    /\ UNCHANGED <<events, bookings, waitlists, last, req, lock, users, cache, now, redis>>

\* the rows of wl that are the row r read earlier (one entry per user and event here)
SameRow(wl, r) ==
    {j \in DOMAIN wl : wl[j].user_id = r.user_id /\ wl[j].event_id = r.event_id}

\* the flush of move_from_waitlist_to_booking: each remaining row gets the position
\* computed from the value read, the first row is deleted if it is still there
RECURSIVE flush_promotion(_, _, _)
flush_promotion(wl, first, remaining) ==
    IF remaining = {}
    THEN SelectSeq(wl, LAMBDA r : ~(r.user_id = first.user_id /\ r.event_id = first.event_id))
    ELSE LET r == CHOOSE x \in remaining : TRUE
         IN  flush_promotion(
                [j \in DOMAIN wl |->
                    IF j \in SameRow(wl, r) THEN [wl[j] EXCEPT !.position = r.position - 1]
                    ELSE wl[j]],
                first, remaining \ {r})

\* move_from_waitlist_to_booking: db.add(new_booking), db.delete(first_waitlist),
\* position -= 1, event.booked_count = active_bookings + 1, db.commit().
\* An UPDATE of a remaining row that another transaction deleted matches no row:
\* the flush raises StaleDataError and the transaction is rolled back. A DELETE
\* that matches no row is only warned about.
cp_commit(p) ==
    /\ pc[p] = "cp_commit"
    /\ LET e == bookings[req[p].booking_id].event_id
       IN  IF \E r \in loc[p].remaining : SameRow(waitlists, r) = {}
           THEN /\ Finish(p, "StaleDataError")
                /\ UNCHANGED <<events, bookings, waitlists>>
           ELSE /\ bookings' = db_add(bookings, Booking(loc[p].first.user_id, e))
                /\ waitlists' = flush_promotion(waitlists, loc[p].first, loc[p].remaining)
                /\ events' = [events EXCEPT ![e].booked_count = loc[p].n + 1]
                /\ pc' = [pc EXCEPT ![p] = "done"]
                /\ loc' = [loc EXCEPT ![p].result = "moved"]
    /\ UNCHANGED <<last, req, lock, users, cache, now, redis>>

MaxWaiting == 2

\* the full event 1 with up to MaxWaiting users waiting, and one cancel_booking
\* request per process
InitPromoteRace ==
    /\ \E c \in 1..MaxCap, k \in 0..MaxWaiting :
        /\ events = [e \in {1} |-> [capacity |-> c, booked_count |-> c]]
        /\ bookings = [i \in 1..c |-> Booking(i, 1)]
        /\ waitlists = [i \in 1..k |-> Waitlist(c + i, 1, i)]
        /\ req \in [Procs -> [booking_id : 1..c]]
    /\ last = Resp("none", 0, 0, 0, "none", FALSE, 0)
    /\ pc = [p \in Procs |-> "cp_cancel"]
    /\ loc = [p \in Procs |-> Promotion(0, Waitlist(0, 0, 0), {})]
    /\ lock = [e \in EventIds |-> 0]
    /\ users = 1..(MaxCap + MaxWaiting)
    /\ cache = _memory_cache
    /\ now = 0
    /\ redis = no_redis

NextPromoteRace ==
    \/ \E p \in Procs : cp_cancel(p)
    \/ \E p \in Procs : cp_read(p)
    \/ \E p \in Procs : cp_commit(p)

SpecPromoteRace == InitPromoteRace /\ [][NextPromoteRace]_vars

\* ---------------------------------------------------------------- cancellation against booking
\* a user who is registered, holds no booking and is on no waitlist
Newcomer == MaxCap + MaxWaiting + 1

CancelRequest(b) == [booking_id |-> b, event_id |-> 1, user_id |-> 0]

BookRequest(u) == [booking_id |-> 0, event_id |-> 1, user_id |-> u]

\* the full event 1 with at least one user waiting; each process runs either a
\* cancel_booking of one of its bookings or a book_event of the newcomer
InitCancelBookRace ==
    /\ \E c \in 1..MaxCap, k \in 1..MaxWaiting :
        /\ events = [e \in {1} |-> [capacity |-> c, booked_count |-> c]]
        /\ bookings = [i \in 1..c |-> Booking(i, 1)]
        /\ waitlists = [i \in 1..k |-> Waitlist(c + i, 1, i)]
        /\ req \in [Procs -> {CancelRequest(b) : b \in 1..c} \cup {BookRequest(Newcomer)}]
    /\ last = Resp("none", 0, 0, 0, "none", FALSE, 0)
    /\ pc = [p \in Procs |-> IF req[p].booking_id # 0 THEN "cp_cancel" ELSE "be_booking"]
    /\ loc = [p \in Procs |-> Promotion(0, Waitlist(0, 0, 0), {})]
    /\ lock = [e \in EventIds |-> 0]
    /\ users = 1..Newcomer
    /\ cache = _memory_cache
    /\ now = 0
    /\ redis = no_redis

NextCancelBookRace ==
    \/ \E p \in Procs : cp_cancel(p)
    \/ \E p \in Procs : cp_read(p)
    \/ \E p \in Procs : cp_commit(p)
    \/ \E p \in Procs : be_booking(p)
    \/ \E p \in Procs : be_waitlist(p)
    \/ \E p \in Procs : be_count(p)
    \/ \E p \in Procs : be_commit(p)

SpecCancelBookRace == InitCancelBookRace /\ [][NextCancelBookRace]_vars

\* ---------------------------------------------------------------- reads against booking
\* NumProcs concurrent requests and one more that can follow them
Clients == 1..(NumProcs + 1)

GetEventsRequest == [op |-> "get_events", event_id |-> 0, user_id |-> 0]

BookTicketRequest(u) == [op |-> "book_ticket", event_id |-> 1, user_id |-> u]

\* what a get_events request holds: the listing it returns (data), and whether
\* every book_ticket request had returned when it started (after)
Listing(data, after) == [n |-> 0, result |-> "none", data |-> data, after |-> after]

BookingsReturned == \A q \in Clients : req[q].op = "book_ticket" => pc[q] = "done"

\* get_events: cached_events = get_cache(cache_key); a hit is returned
ge_get(p) ==
    /\ pc[p] = "ge_get"
    /\ LET cached_events == get_cache(cache, make_events_cache_key, now)
       IN  /\ cache' = cached_events.store
           /\ IF cached_events.hit
              THEN /\ pc' = [pc EXCEPT ![p] = "done"]
                   /\ loc' = [loc EXCEPT ![p] = Listing(cached_events.value, BookingsReturned)]
              ELSE /\ pc' = [pc EXCEPT ![p] = "ge_query"]
                   /\ loc' = [loc EXCEPT ![p] = Listing(<<>>, BookingsReturned)]
    /\ UNCHANGED <<events, bookings, waitlists, last, req, lock, users, now, redis>>

\* get_events: events = db.query(Event).all() and the listing built from it
ge_query(p) ==
    /\ pc[p] = "ge_query"
    /\ pc' = [pc EXCEPT ![p] = "ge_set"]
    /\ loc' = [loc EXCEPT ![p] = Listing(events_data(events), @.after)]
    /\ UNCHANGED <<events, bookings, waitlists, last, req, lock, users, cache, now, redis>>

\* get_events: set_cache(cache_key, events_data, ttl=300); return events_data
ge_set(p) ==
    /\ pc[p] = "ge_set"
    /\ cache' = set_cache(cache, make_events_cache_key, loc[p].data, events_ttl, now)
    /\ pc' = [pc EXCEPT ![p] = "done"]
    /\ UNCHANGED <<events, bookings, waitlists, last, req, loc, lock, users, now, redis>>

\* the event 1 with free seats, an empty cache, and per client a get_events or
\* a book_ticket request
InitReadRace ==
    /\ events \in [{1} -> [capacity : 1..MaxCap, booked_count : {0}]]
    /\ bookings = <<>>
    /\ waitlists = <<>>
    /\ last = Resp("none", 0, 0, 0, "none", FALSE, 0)
    /\ req \in [Clients -> {GetEventsRequest} \cup {BookTicketRequest(u) : u \in Users}]
    /\ pc = [p \in Clients |-> IF req[p].op = "get_events" THEN "ge_get" ELSE "bt_lock"]
    /\ loc = [p \in Clients |-> Listing(<<>>, FALSE)]
    /\ lock = [e \in EventIds |-> 0]
    /\ users = Users
    /\ cache = _memory_cache
    /\ now = 0
    /\ redis = no_redis

NextReadRace ==
    \/ \E p \in Clients : ge_get(p)
    \/ \E p \in Clients : ge_query(p)
    \/ \E p \in Clients : ge_set(p)
    \/ \E p \in Clients : bt_lock(p)
    \/ \E p \in Clients : bt_check(p)
    \/ \E p \in Clients : bt_commit(p)

SpecReadRace == InitReadRace /\ [][NextReadRace]_vars

\* race bookkeeping
AllDone == \A p \in Procs : pc[p] = "done"

Succeeded == {p \in Procs : pc[p] = "done" /\ loc[p].result = "ok"}

Rejected(reason) == {p \in Procs : pc[p] = "done" /\ loc[p].result = reason}

\* BOOKED rows of event e before the race: nothing is cancelled during a race,
\* and each request that succeeded added one row
BookedBefore(e) == active_bookings(bookings, e) - Cardinality(Succeeded)

FreeBefore(e) == events[e].capacity - BookedBefore(e)

UsersBookedBefore(e) ==
    {bookings[i].user_id : i \in 1..(Len(bookings) - Cardinality(Succeeded))}

\* ---------------------------------------------------------------- properties
\* BOOKED bookings of event e among the rows bk
OccupancyIn(bk, e) ==
    Cardinality({i \in DOMAIN bk : bk[i].event_id = e /\ bk[i].status = "BOOKED"})

\* BOOKED bookings of event e
Occupancy(e) == OccupancyIn(bookings, e)

\* BOOKED bookings of user u for event e
Held(u, e) ==
    {i \in DOMAIN bookings :
        /\ bookings[i].user_id = u
        /\ bookings[i].event_id = e
        /\ bookings[i].status = "BOOKED"}

\* waitlist entries of user u for event e
Waiting(u, e) ==
    {i \in DOMAIN waitlists : waitlists[i].user_id = u /\ waitlists[i].event_id = e}

\* waitlist entries of event e
Queue(e) == {i \in DOMAIN waitlists : waitlists[i].event_id = e}

\* the (user, event) pairs on the waitlist
Queued(wl) == {<<wl[i].user_id, wl[i].event_id>> : i \in DOMAIN wl}

\* C1: with capacity fixed and calls executed one at a time, the number of
\* BOOKED bookings of every event is between 0 and the event's capacity.
C1_OccupancyWithinCapacity ==
    \A e \in DOMAIN events : 0 <= Occupancy(e) /\ Occupancy(e) <= events[e].capacity

\* a full event of capacity 2 turned a booking away
C1_Witness ==
    /\ last.op \in {"book_event", "book_ticket"}
    /\ last.result \in {"Event is full", "Event fully booked"}
    /\ events[last.event_id].capacity = 2
    /\ Occupancy(last.event_id) = 2

\* C2: N concurrent book_event calls by N distinct users, none booked or
\* waitlisted, racing for k free seats: exactly min(N, k) succeed and the
\* BOOKED bookings never exceed the capacity.
C2_RaceFillsExactly ==
    (/\ \A p \in Procs : req[p].user_id \in Users \ UsersBookedBefore(1)
     /\ \A p, q \in Procs : p # q => req[p].user_id # req[q].user_id)
    => /\ Occupancy(1) <= events[1].capacity
       /\ AllDone => Cardinality(Succeeded) = Min(NumProcs, FreeBefore(1))

\* C3: simultaneous users.book_ticket calls for an event with exactly one slot
\* left: exactly one succeeds and every other one is rejected 'Event fully
\* booked', under every interleaving.
C3_OneTicketOneRejection ==
    (/\ FreeBefore(1) = 1
     /\ \A p \in Procs : req[p].user_id \in Users)
    => /\ Cardinality(Succeeded) <= 1
       /\ AllDone => /\ Cardinality(Succeeded) = 1
                     /\ Cardinality(Rejected("Event fully booked")) = NumProcs - 1

\* both requests finished: one holds the last seat, one was turned away
C3_Witness ==
    /\ AllDone
    /\ FreeBefore(1) = 1
    /\ \E p, q \in Procs :
        /\ loc[p].result = "ok"
        /\ loc[q].result = "Event fully booked"
    /\ Occupancy(1) = events[1].capacity

\* C4: at most one BOOKED booking per (event, user) pair in every reachable state.
C4_OneBookingPerUser ==
    \A e \in DOMAIN events, u \in Users : Cardinality(Held(u, e)) <= 1

\* C5: no user has a BOOKED booking and a waitlist entry for the same event.
C5_HeldExcludesWaiting ==
    \A e \in DOMAIN events, u \in Users : Held(u, e) = {} \/ Waiting(u, e) = {}

\* a waiting user was promoted: booked now, and no longer waiting
C5_Witness ==
    /\ last.op = "cancel_booking"
    /\ last.moved
    /\ bookings[Len(bookings)].status = "BOOKED"
    /\ Waiting(bookings[Len(bookings)].user_id, last.event_id) = {}
    /\ Queue(last.event_id) # {}

\* C6: a user has at most one waitlist entry per event, and a join_waitlist by
\* a user already on the event's waitlist is rejected and adds no entry.
C6_OneEntryPerUser ==
    /\ [](\A e \in DOMAIN events, u \in Users : Cardinality(Waiting(u, e)) <= 1)
    /\ [][(/\ last'.op = "join_waitlist"
           /\ Waiting(last'.user_id, last'.event_id) # {})
          => (last'.result # "ok" /\ waitlists' = waitlists)]_vars

\* a second join by a waiting user was turned away
C6_Witness ==
    /\ last.op = "join_waitlist"
    /\ last.result = "already on waitlist"
    /\ Cardinality(Waiting(last.user_id, last.event_id)) = 1

\* C7: the positions of every event's waitlist are exactly 1..N, without gaps
\* or duplicates, N the number of its entries, after every single mutation.
C7_PositionsContiguous ==
    \A e \in EventIds :
        /\ {waitlists[i].position : i \in Queue(e)} = 1..Cardinality(Queue(e))
        /\ \A i, j \in Queue(e) : waitlists[i].position = waitlists[j].position => i = j

\* someone left a waitlist ahead of a user who is still waiting
C7_Witness ==
    /\ last.op = "leave_waitlist"
    /\ last.result = "ok"
    /\ \E i \in Queue(last.event_id) : waitlists[i].position >= last.position

\* C8: whoever move_from_waitlist_to_booking promotes held position 1 when it
\* was called; the new BOOKED booking is theirs, and theirs is the only entry
\* that leaves the waitlist.
C8_FifoPromotion ==
    [][(/\ last'.op \in {"cancel_booking", "process_waitlist"}
        /\ Len(bookings') > Len(bookings))
       => LET e == last'.event_id
              k == Len(bookings') - Len(bookings)
          IN  /\ \A m \in 1..k :
                    \E i \in Queue(e) :
                        /\ waitlists[i].position = m
                        /\ bookings'[Len(bookings) + m] =
                               [user_id |-> waitlists[i].user_id, event_id |-> e,
                                status |-> "BOOKED"]
              /\ Queued(waitlists') =
                     {<<waitlists[i].user_id, waitlists[i].event_id>> :
                         i \in {j \in DOMAIN waitlists :
                                   ~(waitlists[j].event_id = e /\ waitlists[j].position <= k)}}
              /\ Len(waitlists') = Len(waitlists) - k]_vars

\* a promotion chose between at least two waiting users
C8_Witness ==
    /\ last.moved
    /\ \E i \in Queue(last.event_id) :
           waitlists[i].user_id # bookings[Len(bookings)].user_id

\* C9: a successful cancel_booking on a full event with a non-empty waitlist
\* leaves the number of BOOKED bookings at capacity, removes the front entry
\* and gives its user a new BOOKED booking.
C9_CancelPromotesFront ==
    [][(/\ last'.op = "cancel_booking"
        /\ last'.result = "ok"
        /\ Occupancy(last'.event_id) = events[last'.event_id].capacity
        /\ Queue(last'.event_id) # {})
       => LET e == last'.event_id
          IN  \E i \in Queue(e) :
                /\ waitlists[i].position = 1
                /\ OccupancyIn(bookings', e) = events[e].capacity
                /\ events'[e].capacity = events[e].capacity
                /\ <<waitlists[i].user_id, e>> \notin Queued(waitlists')
                /\ Len(waitlists') = Len(waitlists) - 1
                /\ Len(bookings') = Len(bookings) + 1
                /\ bookings'[Len(bookings')] =
                       [user_id |-> waitlists[i].user_id, event_id |-> e,
                        status |-> "BOOKED"]]_vars

\* a cancellation on a full event of capacity 2 refilled the seat from the waitlist
C9_Witness ==
    /\ last.op = "cancel_booking"
    /\ last.result = "ok"
    /\ last.moved
    /\ events[last.event_id].capacity = 2
    /\ Occupancy(last.event_id) = 2
    /\ bookings[last.booking_id].status = "CANCELLED"

C11_FailedPromotionLeavesState ==
    [][(last'.op = "cancel_booking" /\ last'.result = "Internal Server Error")
       => /\ waitlists' = waitlists
          /\ Len(bookings') = Len(bookings)
          /\ \A i \in DOMAIN bookings :
                 bookings'[i] = IF i = last'.booking_id
                                THEN [bookings[i] EXCEPT !.status = "CANCELLED"]
                                ELSE bookings[i]
          /\ events'[last'.event_id].booked_count =
                 Max(0, events[last'.event_id].booked_count - 1)
          /\ events'[last'.event_id].capacity = events[last'.event_id].capacity]_vars

C11_Witness ==
    /\ last.op = "cancel_booking"
    /\ last.result = "Internal Server Error"
    /\ \E i, j \in DOMAIN waitlists :
           /\ waitlists[i].event_id = last.event_id
           /\ waitlists[j].event_id = last.event_id
           /\ waitlists[i].position = 1
           /\ waitlists[j].position = 2
    /\ Occupancy(last.event_id) < events[last.event_id].capacity

\* C12: a cached read made after a successful book, cancel, promotion, waitlist
\* join or waitlist leave returns the current state and nothing older: the
\* listing of get_events, the figures of analytics and the history of
\* get_user_bookings are those of the tables at the time of the read.
C12_CachedReadsAreCurrent ==
    [][/\ last'.op = "get_events" => last'.data = events_data(events)
       /\ last'.op = "get_user_bookings" => last'.data = bookings_data(bookings, last'.user_id)
       /\ last'.op = "analytics"
              => /\ last'.data.total_bookings = Len(bookings)
                 /\ last'.data.utilization = utilization(events)]_vars

\* users holding a BOOKED booking of event e
BookedUsers(e) ==
    {bookings[i].user_id : i \in {j \in DOMAIN bookings :
        bookings[j].event_id = e /\ bookings[j].status = "BOOKED"}}

\* the (user, position) pairs of event e's waitlist
Positions(e) == {<<waitlists[i].user_id, waitlists[i].position>> : i \in Queue(e)}

\* event 1 has n booking rows, its BOOKED ones held by exactly the users held,
\* and its waitlist is exactly queue
Stage(n, held, queue) ==
    /\ Len(bookings) = n
    /\ BookedUsers(1) = held
    /\ Occupancy(1) = Cardinality(held)
    /\ Positions(1) = queue
    /\ Cardinality(Queue(1)) = Cardinality(queue)

\* the request just answered
Asked(op, u) == last.op = op /\ last.event_id = 1 /\ last.user_id = u

\* C13: on an event of capacity 2 with users A = 1, B = 2, C = 3, D = 4, in order:
\* book(A) and book(B) succeed, book(C) is rejected as full, join(C) gets
\* position 1, join(D) gets position 2, and cancelling A's booking leaves 2 BOOKED
\* bookings, C holding one of them, and D at position 1.
C13_Scenario ==
    [][/\ (Stage(0, {}, {}) /\ Asked("book_event", 1)')
            => (last'.result = "ok" /\ Stage(1, {1}, {})')
       /\ (Stage(1, {1}, {}) /\ Asked("book_event", 2)')
            => (last'.result = "ok" /\ Stage(2, {1, 2}, {})')
       /\ (Stage(2, {1, 2}, {}) /\ Asked("book_event", 3)')
            => (last'.result = "Event is full" /\ Stage(2, {1, 2}, {})')
       /\ (Stage(2, {1, 2}, {}) /\ Asked("join_waitlist", 3)')
            => (last'.result = "ok" /\ last'.position = 1
                /\ Stage(2, {1, 2}, {<<3, 1>>})')
       /\ (Stage(2, {1, 2}, {<<3, 1>>}) /\ Asked("join_waitlist", 4)')
            => (last'.result = "ok" /\ last'.position = 2
                /\ Stage(2, {1, 2}, {<<3, 1>>, <<4, 2>>})')
       /\ (Stage(2, {1, 2}, {<<3, 1>>, <<4, 2>>})
           /\ Asked("cancel_booking", 1)' /\ bookings[last'.booking_id].user_id = 1)
            => (last'.result = "ok" /\ last'.moved
                /\ Stage(3, {2, 3}, {<<4, 1>>})')]_vars

C13_Witness ==
    /\ Stage(3, {2, 3}, {<<4, 1>>})
    /\ last.op = "cancel_booking"
    /\ last.moved
    /\ bookings[1] = [user_id |-> 1, event_id |-> 1, status |-> "CANCELLED"]
    /\ bookings[2] = [user_id |-> 2, event_id |-> 1, status |-> "BOOKED"]
    /\ bookings[3] = [user_id |-> 3, event_id |-> 1, status |-> "BOOKED"]

\* C14: join_waitlist is accepted only when the event is full by the live count
\* of its BOOKED bookings; while a seat is free the join is rejected, with
\* "Event is not full" when nothing else is wrong with it, and adds no entry.
C14_JoinOnlyWhenFull ==
    [][(last'.op = "join_waitlist" /\ last'.event_id \in DOMAIN events)
       => LET e == last'.event_id
              u == last'.user_id
          IN  /\ last'.result = "ok" => Occupancy(e) >= events[e].capacity
              /\ Occupancy(e) < events[e].capacity
                    => /\ last'.result # "ok"
                       /\ waitlists' = waitlists
                       /\ (u \in users /\ Held(u, e) = {} /\ Waiting(u, e) = {})
                             => last'.result = "Event is not full"]_vars

C14_Witness ==
    /\ last.op = "join_waitlist"
    /\ last.result = "Event is not full"
    /\ Occupancy(last.event_id) < events[last.event_id].capacity
    /\ Occupancy(last.event_id) > 0
    /\ Waiting(last.user_id, last.event_id) = {}

\* the largest position on event e's waitlist, 0 when it is empty
MaxPosition(e) ==
    LET ps == {waitlists[i].position : i \in Queue(e)}
    IN  IF ps = {} THEN 0 ELSE CHOOSE m \in ps : \A p \in ps : p <= m

\* C15: a successful join_waitlist puts the caller on the event's waitlist at the
\* largest position of that event's waitlist plus one, 1 when it is empty,
\* whatever the waitlists of other events hold.
C15_JoinTakesNextPosition ==
    [][(last'.op = "join_waitlist" /\ last'.result = "ok")
       => /\ last'.position = MaxPosition(last'.event_id) + 1
          /\ waitlists' = Append(waitlists,
                                 [user_id |-> last'.user_id, event_id |-> last'.event_id,
                                  position |-> MaxPosition(last'.event_id) + 1])]_vars

C15_Witness ==
    /\ last.op = "join_waitlist"
    /\ last.result = "ok"
    /\ last.position = 1
    /\ \E e \in DOMAIN events : e # last.event_id /\ MaxPosition(e) = 2

\* C16: leave_waitlist removes the caller's entry for the event, moves every
\* other entry of that event with a higher position up by one and leaves every
\* other entry, of this or another event, as it was; a caller with no entry is
\* rejected as not found and nothing changes.
C16_LeaveShiftsLaterEntries ==
    [][last'.op = "leave_waitlist"
       => LET e == last'.event_id
              u == last'.user_id
          IN  IF Waiting(u, e) = {}
              THEN /\ last'.result = "not on the waitlist"
                   /\ waitlists' = waitlists
              ELSE /\ last'.result = "ok"
                   /\ Len(waitlists') = Len(waitlists) - 1
                   /\ \A j \in DOMAIN waitlists' :
                          ~(waitlists'[j].user_id = u /\ waitlists'[j].event_id = e)
                   /\ \A i \in DOMAIN waitlists \ Waiting(u, e) :
                          \E j \in DOMAIN waitlists' :
                              waitlists'[j] =
                                  IF /\ waitlists[i].event_id = e
                                     /\ \A k \in Waiting(u, e) :
                                            waitlists[i].position > waitlists[k].position
                                  THEN [waitlists[i] EXCEPT !.position = @ - 1]
                                  ELSE waitlists[i]
                   /\ bookings' = bookings
                   /\ events' = events]_vars

C16_Witness ==
    /\ last.op = "leave_waitlist"
    /\ last.result = "ok"
    /\ last.position = 1
    /\ \E i \in Queue(last.event_id) : waitlists[i].position = 1
    /\ \E e \in DOMAIN events : e # last.event_id /\ Queue(e) # {}

\* C17: cancel_booking on a BOOKED booking succeeds and leaves it CANCELLED; a
\* second cancel_booking on the same id is rejected as not found and changes
\* nothing: no decrement of booked_count, no promotion.
C17_SecondCancelRejected ==
    [][(last'.op = "cancel_booking" /\ last'.booking_id \in DOMAIN bookings)
       => LET b == last'.booking_id
          IN  IF bookings[b].status = "BOOKED"
              THEN /\ last'.result = "ok"
                   /\ bookings'[b].status = "CANCELLED"
              ELSE /\ last'.result = "Active booking not found"
                   /\ last'.attempts = 0
                   /\ ~last'.moved
                   /\ events' = events
                   /\ bookings' = bookings
                   /\ waitlists' = waitlists]_vars

C17_Witness ==
    /\ last.op = "cancel_booking"
    /\ last.result = "Active booking not found"
    /\ last.booking_id \in DOMAIN bookings
    /\ bookings[last.booking_id].status = "CANCELLED"
    /\ events[bookings[last.booking_id].event_id].booked_count > 0

C19_RejectionReasonByState ==
    [][(/\ last'.op = "book_event"
        /\ last'.event_id \in DOMAIN events
        /\ last'.user_id \in users)
       => LET e == last'.event_id
              u == last'.user_id
          IN  last'.result =
                  IF Held(u, e) # {} THEN "already booked"
                  ELSE IF Waiting(u, e) # {} THEN "already on waitlist"
                  ELSE IF Occupancy(e) >= events[e].capacity THEN "Event is full"
                  ELSE "ok"]_vars

C19_Witness ==
    /\ last.op = "book_event"
    /\ last.result = "already on waitlist"
    /\ Waiting(last.user_id, last.event_id) # {}
    /\ Held(last.user_id, last.event_id) = {}
    /\ Occupancy(last.event_id) >= events[last.event_id].capacity

\* C20: a successful cancel_booking converts at most one waitlist entry into a
\* BOOKED booking, however many seats are free and users waiting, and its
\* response reports a move exactly when one entry was converted.
C20_AtMostOnePromotionReported ==
    [][(last'.op = "cancel_booking" /\ last'.result = "ok")
       => LET e == last'.event_id
              converted ==
                  {i \in Queue(e) :
                      /\ <<waitlists[i].user_id, e>> \notin Queued(waitlists')
                      /\ \E j \in DOMAIN bookings' \ DOMAIN bookings :
                             bookings'[j] = [user_id |-> waitlists[i].user_id,
                                             event_id |-> e, status |-> "BOOKED"]}
          IN  /\ Cardinality(converted) <= 1
              /\ Len(bookings') - Len(bookings) = Cardinality(converted)
              /\ Len(waitlists) - Len(waitlists') = Cardinality(converted)
              /\ last'.moved <=> Cardinality(converted) = 1]_vars

\* one entry was promoted although a second seat was free and a second user waiting
C20_Witness ==
    /\ last.op = "cancel_booking"
    /\ last.result = "ok"
    /\ last.moved
    /\ Occupancy(last.event_id) < events[last.event_id].capacity
    /\ Queue(last.event_id) # {}

\* C21: process_waitlist returns after finitely many promotion attempts, one more
\* than the promotions it made; on return the event is full or its waitlist is
\* empty, and the number of promotions it reports and made is the smaller of
\* the free seats and the waitlist length before the call.
C21_ProcessDrainsUntilFullOrEmpty ==
    [][(last'.op = "process_waitlist" /\ last'.result = "ok")
       => LET e == last'.event_id
              free == Max(0, events[e].capacity - Occupancy(e))
              moved_to_bookings == last'.attempts - 1
          IN  /\ moved_to_bookings = Min(free, Cardinality(Queue(e)))
              /\ last'.moved <=> moved_to_bookings > 0
              /\ Len(bookings') = Len(bookings) + moved_to_bookings
              /\ Len(waitlists') = Len(waitlists) - moved_to_bookings
              /\ OccupancyIn(bookings', e) = Occupancy(e) + moved_to_bookings
              /\ \/ OccupancyIn(bookings', e) >= events'[e].capacity
                 \/ \A i \in DOMAIN waitlists' : waitlists'[i].event_id # e]_vars

\* two users were promoted in one call
C21_Witness ==
    /\ last.op = "process_waitlist"
    /\ last.result = "ok"
    /\ last.attempts = 3
    /\ Occupancy(last.event_id) = events[last.event_id].capacity
    /\ Queue(last.event_id) # {}

\* C22: in every reachable state, under any interleaving of booking,
\* cancellation and promotion requests, the booked_count of every event is the
\* number of its BOOKED bookings.
C22_CounterMatchesBooked ==
    \A e \in DOMAIN events : events[e].booked_count = Occupancy(e)

\* C23: a booking row is never deleted and keeps its user and event, its status
\* changes only from BOOKED to CANCELLED, and every booking made, also one made
\* after a cancellation by the same user for the same event, is a new row with
\* a new id.
C23_BookingsAppendOnly ==
    [][/\ Len(bookings') >= Len(bookings)
       /\ \A i \in DOMAIN bookings :
              /\ bookings'[i].user_id = bookings[i].user_id
              /\ bookings'[i].event_id = bookings[i].event_id
              /\ bookings[i].status = "CANCELLED" => bookings'[i].status = "CANCELLED"
       /\ (last'.op \in {"book_event", "book_ticket"} /\ last'.result = "ok")
              => /\ last'.booking_id = Len(bookings) + 1
                 /\ Len(bookings') = Len(bookings) + 1
                 /\ bookings'[last'.booking_id] =
                        [user_id |-> last'.user_id, event_id |-> last'.event_id,
                         status |-> "BOOKED"]]_vars

\* a user booked again after a cancellation: the cancelled row is still there
C23_Witness ==
    /\ last.op = "book_event"
    /\ last.result = "ok"
    /\ \E i \in DOMAIN bookings :
           /\ i < last.booking_id
           /\ bookings[i] = [user_id |-> last.user_id, event_id |-> last.event_id,
                             status |-> "CANCELLED"]
    /\ bookings[last.booking_id].status = "BOOKED"

Stored == IF redis.client THEN redis.data ELSE cache

\* the store holds what it held before, without the keys removed
Removed(keys) ==
    /\ DOMAIN Stored' = DOMAIN Stored \ keys
    /\ \A k \in DOMAIN Stored \ keys : Stored'[k] = Stored[k]

\* C25: invalidate_event_caches removes events:all, analytics:data and the
\* event:{id} key of the event id it is given, invalidate_user_booking_cache(u)
\* removes user:{u}:bookings, and each leaves every other key and value as it was.
C25_InvalidationRemovesOnlyItsKeys ==
    [][/\ last'.op = "invalidate_event_caches"
            => Removed({<<"events:all", 0>>, <<"analytics:data", 0>>}
                           \cup (IF last'.event_id # 0
                                 THEN {<<"event:", last'.event_id>>} ELSE {}))
       /\ last'.op = "invalidate_user_booking_cache"
            => Removed({<<"user:bookings", last'.user_id>>})]_vars

\* event 1 was invalidated while the keys of event 2 and of user 1 were cached
C25_Witness ==
    /\ last.op = "invalidate_event_caches"
    /\ last.event_id = 1
    /\ DOMAIN Stored = {<<"event:", 2>>, <<"user:bookings", 1>>}
    /\ DOMAIN last.written = DOMAIN Stored

ReadOps == {"get_events", "get_user_bookings", "analytics"}

\* the cache key of the view a read response is for
ViewKey(r) ==
    CASE r.op = "get_events" -> <<"events:all", 0>>
      [] r.op = "get_user_bookings" -> <<"user:bookings", r.user_id>>
      [] r.op = "analytics" -> <<"analytics:data", 0>>

\* C26: a read of a cached view that follows a read of the same view, with no
\* state-changing call and no expiry between them, returns the same data as the
\* first, the time of generation included; and after every read the view's key
\* holds the returned data with an expiry in the future.
C26_RepeatedReadServedFromCache ==
    [][last'.op \in ReadOps
       => /\ (last.op = last'.op /\ last.user_id = last'.user_id)
                => last'.data = last.data
          /\ ViewKey(last') \in DOMAIN cache'
          /\ cache'[ViewKey(last')].value = last'.data
          /\ cache'[ViewKey(last')].expiry > now']_vars

\* analytics read twice, the second read later than the first and served the
\* figures generated for the first
C26_Witness ==
    /\ last.op = "analytics"
    /\ last.data.generated_at < now
    /\ last.data.total_bookings = 1
    /\ cache[<<"analytics:data", 0>>].value = last.data

\* C27: whether Redis was unreachable when the process started or stopped
\* answering later, every set_cache, get_cache and delete_cache call completes
\* instead of raising, and get_cache returns what the in-process store would:
\* the value set and not yet expired or deleted, None otherwise.
C27_CacheCallsSurviveOutage ==
    [][(last'.op \in {"set_cache", "get_cache", "delete_cache"} /\ now' = now)
       => /\ last'.result = "ok"
          /\ last'.op = "get_cache"
                => last'.value =
                       IF /\ last'.key \in DOMAIN Written
                          /\ now - Written[last'.key].at < Written[last'.key].ttl
                       THEN Written[last'.key].value
                       ELSE None]_vars

\* C28: under every interleaving of concurrent join_waitlist calls by distinct
\* users on the same full event, the entries have distinct positions and the
\* positions of the event are exactly 1..N.
C28_ConcurrentJoinsDistinctPositions ==
    \A e \in DOMAIN events :
        /\ \A i, j \in Queue(e) : i # j => waitlists[i].position # waitlists[j].position
        /\ {waitlists[i].position : i \in Queue(e)} = 1..Cardinality(Queue(e))


\* C29: under every interleaving of concurrent promotions on the same event no
\* waitlist entry is promoted twice: a user holds at most one BOOKED booking of
\* the event and is not left waiting beside it, and the positions that remain
\* are exactly 1..N.
C29_NoEntryPromotedTwice ==
    \A e \in DOMAIN events :
        /\ \A u \in users : Cardinality(Held(u, e)) <= 1
        /\ \A u \in users : Held(u, e) = {} \/ Waiting(u, e) = {}
        /\ {waitlists[i].position : i \in Queue(e)} = 1..Cardinality(Queue(e))


\* C30: concurrent book_event calls by one user, not booked before, for an event
\* with at least two free seats leave that user with exactly one BOOKED booking
\* under every interleaving.
C30_SameUserBooksOnce ==
    (/\ AllDone
     /\ FreeBefore(1) >= 2
     /\ \A p, q \in Procs : req[p].user_id = req[q].user_id
     /\ \A p \in Procs : req[p].user_id \in Users \ UsersBookedBefore(1))
    => \A p \in Procs : Cardinality(Held(req[p].user_id, 1)) = 1


\* C31: when a booking of a full event with waiting users is cancelled while a
\* user who is not waiting calls book_event, the freed seat goes to the front of
\* the waitlist under every interleaving: the caller of book_event is booked
\* only when nobody is left waiting, and never beyond the capacity.
C31_FreedSeatGoesToWaitlist ==
    \A p \in Procs :
        (pc[p] = "done" /\ req[p].booking_id = 0 /\ loc[p].result = "ok")
        => /\ Queue(1) = {}
           /\ Occupancy(1) <= events[1].capacity


\* C32: a cancel_booking whose promotion fails at commit changes nothing: the
\* booking is still BOOKED, booked_count and the waitlist are as before the call.
C32_FailedCancelChangesNothing ==
    [][(last'.op = "cancel_booking" /\ last'.result = "Internal Server Error")
       => /\ bookings' = bookings
          /\ events' = events
          /\ waitlists' = waitlists]_vars


\* C33: after an update_event call that changes the capacity of an event, the
\* BOOKED bookings of the event are at most the new capacity.
C33_UpdateKeepsOccupancyWithinCapacity ==
    [][(/\ last'.op = "update_event"
        /\ last'.result = "ok"
        /\ events'[last'.event_id].capacity # events[last'.event_id].capacity)
       => OccupancyIn(bookings', last'.event_id) <= events'[last'.event_id].capacity]_vars


\* C34: users.cancel_booking on a BOOKED booking sets its status to cancelled
\* and lowers the booked_count of its event by one; on a cancelled booking it
\* is rejected with 'Already cancelled' and on an unknown id with 'Booking not
\* found', changing nothing.
C34_UsersCancelReleasesOnce ==
    [][last'.op = "users_cancel_booking"
       => LET b == last'.booking_id
          IN  IF b \notin DOMAIN bookings
              THEN /\ last'.result = "Booking not found"
                   /\ UNCHANGED <<events, bookings, waitlists>>
              ELSE IF bookings[b].status = "CANCELLED"
              THEN /\ last'.result = "Already cancelled"
                   /\ UNCHANGED <<events, bookings, waitlists>>
              ELSE /\ last'.result = "ok"
                   /\ bookings' = [bookings EXCEPT ![b].status = "CANCELLED"]
                   /\ events' = [events EXCEPT ![bookings[b].event_id].booked_count = @ - 1]]_vars


\* C35: with calls executed one at a time and the capacity fixed, an event with
\* a non-empty waitlist is full: its BOOKED bookings equal its capacity, so a
\* free seat and a waiting user never coexist.
C35_WaitingImpliesFull ==
    \A e \in DOMAIN events :
        Queue(e) # {} => Occupancy(e) = events[e].capacity

\* a cancellation promoted the front of the waitlist and a user is still waiting
C35_Witness ==
    /\ last.op = "cancel_booking"
    /\ last.result = "ok"
    /\ last.moved
    /\ Queue(last.event_id) # {}
    /\ Occupancy(last.event_id) = events[last.event_id].capacity


\* the calls of the booking and waitlist routers that can be rejected
RejectingOps == {"book_event", "join_waitlist", "leave_waitlist", "cancel_booking"}

\* C36: a rejected book_event, join_waitlist, leave_waitlist or cancel_booking
\* leaves every booking, every booked_count and every waitlist entry and
\* position as it was before the call.
C36_RejectionChangesNothing ==
    [][(last'.op \in RejectingOps /\ last'.result # "ok")
       => /\ bookings' = bookings
          /\ events' = events
          /\ waitlists' = waitlists]_vars

\* a call was rejected while the event had bookings and users waiting
C36_Witness ==
    /\ last.op \in RejectingOps
    /\ last.result # "ok"
    /\ last.event_id \in DOMAIN events
    /\ Occupancy(last.event_id) > 0
    /\ Queue(last.event_id) # {}


\* the rows of wl that are the entry of the same user and event as row r
EntryIn(wl, r) ==
    {j \in DOMAIN wl : wl[j].user_id = r.user_id /\ wl[j].event_id = r.event_id}

\* the user of entry r holds a booking made by this step
PromotedNow(r) ==
    \E b \in DOMAIN bookings' \ DOMAIN bookings :
        bookings'[b] = [user_id |-> r.user_id, event_id |-> r.event_id, status |-> "BOOKED"]

\* C37: no call changes the relative order of two users who wait on the same
\* event before and after it, no waiting user's position increases, and no user
\* is promoted while a user ahead of them stays on the waitlist.
C37_WaitingOrderPreserved ==
    [][\A i, j \in DOMAIN waitlists :
          (/\ waitlists[i].event_id = waitlists[j].event_id
           /\ waitlists[i].position < waitlists[j].position)
          => /\ \A k \in EntryIn(waitlists', waitlists[i]) :
                    waitlists'[k].position <= waitlists[i].position
             /\ \A k \in EntryIn(waitlists', waitlists[j]) :
                    waitlists'[k].position <= waitlists[j].position
             /\ \A k \in EntryIn(waitlists', waitlists[i]), m \in EntryIn(waitlists', waitlists[j]) :
                    waitlists'[k].position < waitlists'[m].position
             /\ (PromotedNow(waitlists[j]) /\ EntryIn(waitlists', waitlists[j]) = {})
                    => EntryIn(waitlists', waitlists[i]) = {}]_vars

\* two users still wait, in their order, after the entry ahead of both was
\* promoted by a cancellation
C37_Witness ==
    /\ last.op = "cancel_booking"
    /\ last.moved
    /\ \E i, j \in Queue(last.event_id) :
           /\ waitlists[i].position = 1
           /\ waitlists[j].position = 2
           /\ waitlists[i].user_id # waitlists[j].user_id


\* BOOKED bookings of user u for event e among the rows bk
HeldIn(bk, u, e) ==
    {i \in DOMAIN bk : bk[i].user_id = u /\ bk[i].event_id = e /\ bk[i].status = "BOOKED"}

\* C38: a user at position p of a full event is booked after exactly p
\* successful cancel_booking calls on the event, unless that user or a user
\* ahead leaves: each such cancellation books the user at position 1 and moves
\* every other entry up by one, and every other call, a rejected booking or a
\* leave further back included, keeps the entry at its position and unbooked.
C38_BookedAfterPositionCancellations ==
    [][\A i \in DOMAIN waitlists :
          LET r == waitlists[i]
              cancelled == /\ last'.op = "cancel_booking"
                           /\ last'.result = "ok"
                           /\ last'.event_id = r.event_id
              left_ahead == /\ last'.op = "leave_waitlist"
                            /\ last'.result = "ok"
                            /\ last'.event_id = r.event_id
                            /\ last'.position <= r.position
          IN  (Occupancy(r.event_id) = events[r.event_id].capacity /\ ~left_ahead)
              => IF cancelled /\ r.position = 1
                 THEN /\ HeldIn(bookings', r.user_id, r.event_id) # {}
                      /\ EntryIn(waitlists', r) = {}
                 ELSE /\ HeldIn(bookings', r.user_id, r.event_id) = {}
                      /\ \E k \in EntryIn(waitlists', r) :
                             waitlists'[k].position =
                                 IF cancelled THEN r.position - 1 ELSE r.position]_vars

\* the second of two cancellations promoted a user who had joined behind the
\* user promoted by the first, while a third user waits
C38_Witness ==
    /\ last.op = "cancel_booking"
    /\ last.moved
    /\ Len(bookings) = 3
    /\ bookings[1].status = "CANCELLED"
    /\ bookings[2].status = "CANCELLED"
    /\ bookings[3].status = "BOOKED"
    /\ Queue(last.event_id) # {}


\* C39: a get_events read that starts after every book_ticket has returned
\* reflects those bookings, under every interleaving with get_events calls
\* that were in progress: its listing is the one of the events table.
C39_LaterReadReflectsBooking ==
    \A p \in DOMAIN pc :
        (pc[p] = "done" /\ req[p].op = "get_events" /\ loc[p].after)
        => loc[p].data = events_data(events)

====
